---------------------------- MODULE Spec2Model ----------------------------
(*
  Model of trail_monitor_service.py: the tail loop monitor_trail_file(), the
  module-level state it shares between stream connections, and the trail
  directory it polls.

  One connection = one run of the async generator monitor_trail_file(), driven
  by event_stream().  A generator runs from the point where it is resumed to
  its next `yield` or `await`; `running` names the generator that currently
  holds the event loop (0 when every generator is suspended).  Such a run
  has no await in it and is taken as instantaneous: the trail directory and
  the wall clock, which belong to the environment, change while the
  generators are suspended.

  A trail file is the sequence of its lines; LAST_POSITION counts lines, and
  inLine tells that it stands inside the last of them (the writer had written
  only the first part of that line when the file was read).

  Sizes are bytes, times are seconds.  calculate_memory_diff is modelled in
  hundredths of a MB (the value round(..., 2) returns, times 100).
*)
EXTENDS Integers, Sequences, FiniteSets

(* ------------------------------ bounds -------------------------------- *)
MaxAppends == 2          \* lines the CAD application writes, in total
MaxDeletes == 1          \* trail files removed from the directory, in total
StartTime  == 1000       \* time.time() when the process starts
MaxGot     == 1          \* events kept in the delivery history of a stream

(* -------------------------- program constants -------------------------- *)
POLL_INTERVAL    == 1    \* seconds
ALERT_COOLDOWN   == 60   \* seconds between command alerts
MEM_THRESHOLD_MB == 10   \* `if diff_mb > 10`
BYTES_PER_MB     == 1024 * 1024

MaxTime == StartTime + ALERT_COOLDOWN   \* the wall clock stops advancing here

Conns  == {1, 2}                         \* stream connections (runs of the generator)
Single == {1}                            \* the connection of the one-stream specification
Names  == <<"trail.txt.1", "trail.txt.2">>  \* the trail files, in the order the CAD
                                            \* application creates them (one per session)
Paths  == {Names[i] : i \in 1..Len(Names)}  \* TRAIL_FILE_DIR.glob("trail.txt.*")
None   == "None"
NoMem  == -1                             \* parse_memory_line(line) is None / LAST_MEMORY_DATA == {}

\* AppSize values: 10491002 bytes is 10.00 MB after rounding, 10491003 is 10.01
AppSizes  == {0, 10491002, 10491003}
TimeSteps == {ALERT_COOLDOWN - 1, ALERT_COOLDOWN}

\* A trail line, by what the loop looks at:
\*   cmd = "important": "!Command" and "ProCmd" in line, with an allow-listed name
\*   cmd = "noise":     "!Command" and "ProCmd" in line, no allow-listed name
\*   cmd = "none":      the two markers are not both present
\*   mem = n:           the line matches the !mem_use regex with AppSize n
Lines ==
  {[cmd |-> "important", mem |-> NoMem]}
  \cup {[cmd |-> "none", mem |-> n] : n \in AppSizes}
  \cup {[cmd |-> k, mem |-> 10491003] : k \in {"important", "noise"}}

VARIABLES
  recency,           \* existing trail files, by st_mtime, most recent last
  content,           \* content[p]: the lines of file p
  clock,             \* time.time()
  created, written, deleted,  \* how many files were created / lines appended / files deleted
  partial,           \* the file whose last line has only its first part written, or None
  MONITORED_FILE, LAST_POSITION, LAST_MEMORY_DATA,   \* module globals
  inLine,            \* LAST_POSITION stands inside line number LAST_POSITION, after its first part
  running,           \* the generator holding the event loop, or 0
  pc,                \* pc[c]: where generator c stands
  last_alert_time,   \* last_alert_time[c]: local of generator c
  new_lines,         \* new_lines[c]: lines read and not yet processed, head = current line
  sleepDur,          \* argument of the asyncio.sleep generator c is in
  tick,              \* tick[c]: what generator c did in its current tick (history)
  alerts,            \* alerts[c]: the times of the command_events of stream c (history)
  fresh,             \* fresh[c]: no memory-report line processed since c started tracking its file
  early,             \* early[c]: stream c was opened before the first trail file existed
  handled,           \* lines of the tracked file the loop body was entered for (history)
  got,               \* got[c]: the first MaxGot non-heartbeat events delivered on stream c (history)
  readBy             \* readBy[c]: the line numbers of the tracked file that reads of generator c
                     \* returned since the file became the tracked one (history)

envVars  == <<recency, content, clock, created, written, deleted, partial>>
globVars == <<MONITORED_FILE, LAST_POSITION, LAST_MEMORY_DATA, inLine>>
locVars  == <<running, pc, last_alert_time, new_lines, sleepDur, tick>>
histVars == <<alerts, fresh, early, handled, got, readBy>>
vars     == <<envVars, globVars, locVars, histVars>>

(* ------------------------------ helpers ------------------------------- *)
Range(s) == {s[i] : i \in 1..Len(s)}
Without(s, p) == SelectSeq(s, LAMBDA x : x # p)
exists(p) == p \in Range(recency)             \* Path.exists()

\* find_latest_trail_file(): max by st_mtime, None when the glob is empty
find_latest_trail_file ==
  IF recency = <<>> THEN None ELSE recency[Len(recency)]

\* parse_memory_line(line): the record's appSize, or NoMem
parse_memory_line(line) == line.mem

\* round(x / BYTES_PER_MB, 2) * 100 for x = n / 100, round-half-even
RoundHundredths(n) ==
  LET q == n \div BYTES_PER_MB
      r == n % BYTES_PER_MB
  IN  IF 2 * r < BYTES_PER_MB THEN q
      ELSE IF 2 * r > BYTES_PER_MB THEN q + 1
      ELSE IF q % 2 = 0 THEN q ELSE q + 1

\* a delta that takes an absent snapshot for a snapshot of size 0
calculate_memory_diff_no_absent(current, previous) ==
  RoundHundredths(100 * (current - (IF previous = NoMem THEN 0 ELSE previous)))

\* calculate_memory_diff(current, previous), in hundredths of a MB
calculate_memory_diff(current, previous) ==
  IF previous = NoMem THEN 0 ELSE RoundHundredths(100 * (current - previous))

\* `if diff_mb > 10`
IsSpike(diff) == diff > MEM_THRESHOLD_MB * 100

\* a loop without the cooldown test
InCooldownNever(now, last) == FALSE

\* `if now - last_alert_time < ALERT_COOLDOWN: continue`
InCooldown(now, last) == now - last < ALERT_COOLDOWN

NewTick == [located   |-> None,   \* what the Locator returned in this tick
            switched  |-> FALSE,  \* the tick replaced MONITORED_FILE
            read      |-> FALSE,  \* the tick reached the read of new lines
            fault     |-> FALSE,  \* the tick ended in the except branch
            ev        |-> <<>>]   \* the events the tick emitted, in order

Emit(c, e) == [tick[c] EXCEPT !.ev = Append(@, e)]

\* the delivery history of stream c after event e about file f
Deliver(c, e, f) ==
  IF Len(got[c]) < MaxGot
  THEN [got EXCEPT ![c] = Append(@, [ev |-> e, file |-> f])]
  ELSE got

(* ------------------------------- Init --------------------------------- *)
Init ==
  /\ recency = <<>>
  /\ content = [p \in Paths |-> <<>>]
  /\ clock = StartTime
  /\ created = 0
  /\ written = 0
  /\ deleted = 0
  /\ partial = None
  /\ MONITORED_FILE = None
  /\ LAST_POSITION = 0
  /\ LAST_MEMORY_DATA = NoMem
  /\ inLine = FALSE
  /\ running = 0
  /\ pc = [c \in Conns |-> "init"]
  /\ last_alert_time = [c \in Conns |-> 0]
  /\ new_lines = [c \in Conns |-> <<>>]
  /\ sleepDur = [c \in Conns |-> 0]
  /\ tick = [c \in Conns |-> NewTick]
  /\ alerts = [c \in Conns |-> <<>>]
  /\ fresh = [c \in Conns |-> TRUE]
  /\ early = [c \in Conns |-> FALSE]
  /\ handled = 0
  /\ got = [c \in Conns |-> <<>>]
  /\ readBy = [c \in Conns |-> {}]

(* ---------------------------- environment ----------------------------- *)
\* the CAD application starts a session: a new trail file with the next suffix
CreateFile(p) ==
  /\ running = 0
  /\ created < Len(Names)
  /\ p = Names[created + 1]
  /\ created' = created + 1
  /\ recency' = Append(recency, p)
  /\ content' = [content EXCEPT ![p] = <<>>]
  /\ UNCHANGED <<clock, written, deleted, partial, globVars, locVars, histVars>>

\* the CAD application appends one line to a trail file
AppendLine(p, l) ==
  /\ running = 0
  /\ exists(p)
  /\ partial # p
  /\ written < MaxAppends
  /\ written' = written + 1
  /\ content' = [content EXCEPT ![p] = Append(@, l)]
  /\ recency' = Append(Without(recency, p), p)
  /\ UNCHANGED <<clock, created, deleted, partial, globVars, locVars, histVars>>

\* the CAD application writes the first part of a line, without its end and
\* without the newline (a write buffer flushed in the middle of a line);
\* content[p] already holds the line the text will be once complete
AppendPart(p, l) ==
  /\ running = 0
  /\ exists(p)
  /\ partial = None
  /\ written < MaxAppends
  /\ written' = written + 1
  /\ content' = [content EXCEPT ![p] = Append(@, l)]
  /\ partial' = p
  /\ recency' = Append(Without(recency, p), p)
  /\ UNCHANGED <<clock, created, deleted, globVars, locVars, histVars>>

\* the CAD application writes the rest of the line and the newline
CompleteLine(p) ==
  /\ running = 0
  /\ exists(p)
  /\ partial = p
  /\ partial' = None
  /\ recency' = Append(Without(recency, p), p)
  /\ UNCHANGED <<content, clock, created, written, deleted, globVars, locVars, histVars>>

\* a trail file is removed from the directory
DeleteFile(p) ==
  /\ running = 0
  /\ exists(p)
  /\ deleted < MaxDeletes
  /\ deleted' = deleted + 1
  /\ recency' = Without(recency, p)
  /\ content' = [content EXCEPT ![p] = <<>>]
  /\ partial' = IF partial = p THEN None ELSE partial
  /\ UNCHANGED <<clock, created, written, globVars, locVars, histVars>>

\* the wall clock advances
Tick(d) ==
  /\ running = 0
  /\ clock + d <= MaxTime
  /\ clock' = clock + d
  /\ UNCHANGED <<recency, content, created, written, deleted, partial, globVars, locVars,
                 histVars>>


(* ----------------------------- the stream ----------------------------- *)
\* GET /stream: event_stream() creates the generator; its locals are fresh
Open(c) ==
  /\ pc[c] = "init"
  /\ running = 0
  /\ pc' = [pc EXCEPT ![c] = "locate"]
  /\ last_alert_time' = [last_alert_time EXCEPT ![c] = 0]
  /\ early' = [early EXCEPT ![c] = (created = 0)]
  /\ UNCHANGED <<envVars, globVars, running, new_lines, sleepDur, tick, alerts, fresh,
                 handled, got, readBy>>

\* the client disconnects: the generator is closed where it is suspended, its
\* locals (new_lines among them) are dropped, the module globals stay
Close(c) ==
  /\ pc[c] \notin {"init", "closed"}
  /\ running = 0
  /\ pc' = [pc EXCEPT ![c] = "closed"]
  /\ new_lines' = [new_lines EXCEPT ![c] = <<>>]
  /\ last_alert_time' = [last_alert_time EXCEPT ![c] = 0]
  /\ sleepDur' = [sleepDur EXCEPT ![c] = 0]
  /\ tick' = [tick EXCEPT ![c] = NewTick]
  /\ UNCHANGED <<envVars, globVars, running, histVars>>

\* a loop that never notices a new trail file
IsNewFileNever(current_file) == FALSE

\* `if current_file != MONITORED_FILE`
IsNewFile(current_file) == current_file # MONITORED_FILE

\* a loop that announces every change of the Locator's answer
IsPathAlways(current_file) == TRUE

\* `if current_file:`
IsPath(current_file) == current_file # None

\* a switch that goes on from the offset reached in the file tracked before
SwitchedPositionKept == LAST_POSITION

\* `LAST_POSITION = 0`
SwitchedPosition == 0

\* a switch that also forgets the last alert
SwitchedAlertTimeReset(c) == 0

\* lines 109-111 assign the three module globals and leave last_alert_time alone
SwitchedAlertTime(c) == last_alert_time[c]

\* lines 105-121: query the Locator, switch file, yield file_change
Locate(c) ==
  /\ pc[c] = "locate"
  /\ running = 0
  /\ LET current_file == find_latest_trail_file IN
     IF IsNewFile(current_file)
     THEN /\ MONITORED_FILE' = current_file
          /\ LAST_POSITION' = SwitchedPosition
          /\ inLine' = FALSE
          /\ LAST_MEMORY_DATA' = NoMem
          /\ fresh' = [fresh EXCEPT ![c] = TRUE]
          /\ handled' = 0
          /\ readBy' = [d \in Conns |-> {}]
          /\ last_alert_time' = [last_alert_time EXCEPT ![c] = SwitchedAlertTime(c)]
          /\ IF IsPath(current_file)
             THEN /\ tick' = [tick EXCEPT ![c] =
                         [NewTick EXCEPT !.located = current_file, !.switched = TRUE,
                                         !.ev = <<"file_change">>]]
                  /\ got' = Deliver(c, "file_change", current_file)
                  /\ running' = 0
             ELSE /\ tick' = [tick EXCEPT ![c] =
                         [NewTick EXCEPT !.located = current_file, !.switched = TRUE]]
                  /\ running' = c
                  /\ UNCHANGED got
     ELSE /\ tick' = [tick EXCEPT ![c] = [NewTick EXCEPT !.located = current_file]]
          /\ running' = c
          /\ UNCHANGED <<globVars, last_alert_time, fresh, handled, got, readBy>>
  /\ pc' = [pc EXCEPT ![c] = "check"]
  /\ UNCHANGED <<envVars, new_lines, sleepDur, alerts, early>>

\* an except branch that sleeps the usual interval
BackoffIntervalSame == POLL_INTERVAL

\* `await asyncio.sleep(POLL_INTERVAL * 2)`
BackoffInterval == POLL_INTERVAL * 2

\* lines 200-202: the except branch
Except(c) ==
  /\ pc' = [pc EXCEPT ![c] = "sleep"]
  /\ sleepDur' = [sleepDur EXCEPT ![c] = BackoffInterval]
  /\ new_lines' = [new_lines EXCEPT ![c] = <<>>]
  /\ running' = 0
  /\ UNCHANGED <<envVars, globVars, last_alert_time, histVars>>

\* line 105 raises (directory unreadable, stat of a file that just vanished)
LocateFault(c) ==
  /\ pc[c] = "locate"
  /\ running = 0
  /\ Except(c)
  /\ tick' = [tick EXCEPT ![c] = [NewTick EXCEPT !.fault = TRUE]]

\* What the loop sees of a line it gets in two parts, when the first part ends
\* inside the first of the texts the loop looks for ("!Command", or the
\* !mem_use pattern of a line without command markers): the first part
\* carries nothing; the second part of a command line lacks "!Command" and
\* keeps a memory report that follows, the second part of a memory line lacks
\* the beginning of the pattern.
Part1(line) == [cmd |-> "none", mem |-> NoMem]
Part2(line) ==
  IF line.cmd # "none" THEN [cmd |-> "none", mem |-> line.mem]
  ELSE [cmd |-> "none", mem |-> NoMem]

\* the last line of file p is unterminated
Torn(p) == partial = p

\* a read that forgets to seek: the whole file, every tick
readlines_unseeked(f, pos) == f

\* `f.seek(LAST_POSITION); new_lines = f.readlines()`: the text of f after
\* pos, cut at the newlines: the rest of the line pos stands in (if written),
\* the whole lines that follow, and the unterminated text at the end of the file
readlines(f, pos) ==
  LET torn  == Torn(MONITORED_FILE)
      whole == IF torn THEN Len(f) - 1 ELSE Len(f)
  IN  (IF inLine /\ ~(torn /\ pos = Len(f)) THEN <<Part2(f[pos])>> ELSE <<>>)
      \o SubSeq(f, pos + 1, whole)
      \o (IF torn /\ pos < Len(f) THEN <<Part1(f[Len(f)])>> ELSE <<>>)

\* a read that leaves the stored offset where it was
tell_unmoved(f, pos) == pos

\* `LAST_POSITION = f.tell()` after readlines(): the end of the file, or the
\* position sought when the file ends before it
tell(f, pos) == IF Len(f) >= pos THEN Len(f) ELSE pos

\* lines 123-131: skip the tick, or read the newly appended lines
Check(c) ==
  /\ pc[c] = "check"
  /\ running \in {0, c}
  /\ IF MONITORED_FILE = None \/ ~exists(MONITORED_FILE)
     THEN /\ pc' = [pc EXCEPT ![c] = "sleep"]
          /\ sleepDur' = [sleepDur EXCEPT ![c] = POLL_INTERVAL]
          /\ running' = 0
          /\ UNCHANGED <<globVars, new_lines, tick, readBy>>
     ELSE LET f == content[MONITORED_FILE] IN
          /\ new_lines' = [new_lines EXCEPT ![c] = readlines(f, LAST_POSITION)]
          /\ LAST_POSITION' = tell(f, LAST_POSITION)
          /\ readBy' = [readBy EXCEPT ![c] = @ \cup (LAST_POSITION + 1 .. Len(f))]
          /\ tick' = [tick EXCEPT ![c].read = TRUE]
          /\ pc' = [pc EXCEPT ![c] = "lines"]
          /\ running' = c
          /\ inLine' = (Torn(MONITORED_FILE) /\ f # <<>>)
          /\ UNCHANGED <<MONITORED_FILE, LAST_MEMORY_DATA, sleepDur>>
  /\ UNCHANGED <<envVars, last_alert_time, alerts, fresh, early, handled, got>>

\* lines 128-130 raise (the file vanished after the check, or is locked)
ReadFault(c) ==
  /\ pc[c] = "check"
  /\ running \in {0, c}
  /\ MONITORED_FILE # None
  /\ Except(c)
  /\ tick' = [tick EXCEPT ![c].fault = TRUE]

\* lines 167-185 for the current line, up to the yield of memory_event
MemPart(c) ==
  LET line == Head(new_lines[c])
      mem_data == parse_memory_line(line)
      diff_mb == calculate_memory_diff(mem_data, LAST_MEMORY_DATA)
  IN  IF mem_data # NoMem /\ IsSpike(diff_mb)
      THEN /\ tick' = [tick EXCEPT ![c] = Emit(c, "memory_event")]
           /\ got' = Deliver(c, "memory_event", MONITORED_FILE)
           /\ pc' = [pc EXCEPT ![c] = "snap"]
           /\ running' = 0
           /\ UNCHANGED <<LAST_MEMORY_DATA, new_lines, fresh>>
      ELSE /\ LAST_MEMORY_DATA' = IF mem_data # NoMem THEN mem_data ELSE LAST_MEMORY_DATA
           /\ fresh' = [fresh EXCEPT ![c] = @ /\ mem_data = NoMem]
           /\ new_lines' = [new_lines EXCEPT ![c] = Tail(@)]
           /\ pc' = [pc EXCEPT ![c] = "lines"]
           /\ running' = c
           /\ UNCHANGED <<tick, got>>

\* a loop that never records the time of an alert
NewAlertTimeKept(c, now) == last_alert_time[c]

\* `last_alert_time = now`
NewAlertTime(c, now) == now

\* lines 133-185: one iteration of `for line in new_lines`, up to its first yield
Line(c) ==
  /\ pc[c] = "lines"
  /\ running = c
  /\ new_lines[c] # <<>>
  /\ LET line == Head(new_lines[c]) IN
     IF line.cmd # "none"
     THEN IF line.cmd # "important" \/ InCooldown(clock, last_alert_time[c])
          THEN \* `continue`: the rest of the loop body is skipped
               /\ new_lines' = [new_lines EXCEPT ![c] = Tail(@)]
               /\ fresh' = [fresh EXCEPT ![c] = @ /\ line.mem = NoMem]
               /\ UNCHANGED <<LAST_MEMORY_DATA, last_alert_time, pc, running, tick,
                              alerts, got>>
          ELSE /\ last_alert_time' = [last_alert_time EXCEPT ![c] = NewAlertTime(c, clock)]
               /\ alerts' = [alerts EXCEPT ![c] = Append(@, clock)]
               /\ tick' = [tick EXCEPT ![c] = Emit(c, "command_event")]
               /\ got' = Deliver(c, "command_event", MONITORED_FILE)
               /\ pc' = [pc EXCEPT ![c] = "mem"]
               /\ running' = 0
               /\ UNCHANGED <<LAST_MEMORY_DATA, new_lines, fresh>>
     ELSE /\ MemPart(c)
          /\ UNCHANGED <<last_alert_time, alerts>>
  /\ handled' = handled + 1
  /\ UNCHANGED <<envVars, MONITORED_FILE, LAST_POSITION, inLine, sleepDur, early, readBy>>

\* resumed after the yield of command_event: lines 167-185 of the same line
Mem(c) ==
  /\ pc[c] = "mem"
  /\ running = 0
  /\ MemPart(c)
  /\ UNCHANGED <<envVars, MONITORED_FILE, LAST_POSITION, inLine, last_alert_time, sleepDur,
                 alerts, early, handled, readBy>>

\* resumed after the yield of memory_event: line 185
Snap(c) ==
  /\ pc[c] = "snap"
  /\ running = 0
  /\ LAST_MEMORY_DATA' = parse_memory_line(Head(new_lines[c]))
  /\ fresh' = [fresh EXCEPT ![c] = FALSE]
  /\ new_lines' = [new_lines EXCEPT ![c] = Tail(@)]
  /\ pc' = [pc EXCEPT ![c] = "lines"]
  /\ running' = c
  /\ UNCHANGED <<envVars, MONITORED_FILE, LAST_POSITION, inLine, last_alert_time, sleepDur,
                 tick, alerts, early, handled, got, readBy>>

\* a heartbeat only for ticks that emitted nothing else
EmitHeartbeatIfQuiet(c) ==
  IF tick[c].ev = <<>> THEN Emit(c, "heartbeat") ELSE tick[c]

\* lines 188-196: the heartbeat record
EmitHeartbeat(c) == Emit(c, "heartbeat")

\* lines 187-198: yield heartbeat, then sleep
Heartbeat(c) ==
  /\ pc[c] = "lines"
  /\ running = c
  /\ new_lines[c] = <<>>
  /\ tick' = [tick EXCEPT ![c] = EmitHeartbeat(c)]
  /\ pc' = [pc EXCEPT ![c] = "sleep"]
  /\ sleepDur' = [sleepDur EXCEPT ![c] = POLL_INTERVAL]
  /\ running' = 0
  /\ UNCHANGED <<envVars, globVars, last_alert_time, new_lines, histVars>>

\* asyncio.sleep returns: `while True` begins the next tick
Wake(c) ==
  /\ pc[c] = "sleep"
  /\ running = 0
  /\ pc' = [pc EXCEPT ![c] = "locate"]
  /\ sleepDur' = [sleepDur EXCEPT ![c] = 0]
  /\ tick' = [tick EXCEPT ![c] = NewTick]
  /\ UNCHANGED <<envVars, globVars, running, last_alert_time, new_lines, histVars>>

(* --------------------------- specifications --------------------------- *)
Env ==
  \/ \E p \in Paths : CreateFile(p)
  \/ \E p \in Paths, l \in Lines : AppendLine(p, l)
  \/ \E p \in Paths : DeleteFile(p)
  \/ \E d \in TimeSteps : Tick(d)

Loop(c) ==
  \/ Locate(c)
  \/ Check(c)
  \/ Line(c)
  \/ Mem(c)
  \/ Snap(c)
  \/ Heartbeat(c)
  \/ Wake(c)

Fault(c) == LocateFault(c) \/ ReadFault(c)

Stream(c) == Open(c) \/ Close(c) \/ Loop(c) \/ Fault(c)

\* one stream: a single run of monitor_trail_file() in the process
Next == Env \/ \E c \in Single : Stream(c)

Spec == Init /\ [][Next]_vars

\* The specifications of several streams and of progress write lines of three
\* kinds only; the one of several streams has one CAD session (one trail file).
FewLines ==
  {[cmd |-> "important", mem |-> NoMem], [cmd |-> "none", mem |-> 0],
   [cmd |-> "none", mem |-> 10491003]}

\* several streams: every GET /stream runs its own monitor_trail_file() over
\* the same module globals
EnvMulti ==
  \/ CreateFile(Names[1])
  \/ \E l \in FewLines : AppendLine(Names[1], l)
  \/ \E d \in TimeSteps : Tick(d)

NextMulti == EnvMulti \/ \E c \in Conns : Stream(c)

SpecMulti == Init /\ [][NextMulti]_vars

\* several streams over several CAD sessions: the trail files come and are
\* written to in turn, so that the tracked file changes back and forth while
\* generators are suspended inside a tick; streams stay open, the clock and
\* the directory are left alone
SwitchLines ==
  {[cmd |-> "none", mem |-> 0], [cmd |-> "important", mem |-> 10491003]}

EnvSwitch ==
  \/ \E p \in Paths : CreateFile(p)
  \/ \E p \in Paths, l \in SwitchLines : AppendLine(p, l)

NextSwitch == EnvSwitch \/ \E c \in Conns : Open(c) \/ Loop(c)

SpecSwitch == Init /\ [][NextSwitch]_vars

\* one stream and one trail file whose lines are written whole or in two parts
EnvPartial ==
  \/ CreateFile(Names[1])
  \/ \E l \in FewLines : AppendLine(Names[1], l)
  \/ \E l \in FewLines : AppendPart(Names[1], l)
  \/ CompleteLine(Names[1])

NextPartial == EnvPartial \/ \E c \in Single : Stream(c)

SpecPartial == Init /\ [][NextPartial]_vars

\* The event loop resumes a generator that is ready, and the client keeps
\* reading the stream until it disconnects (weak fairness on the steps of the
\* loop); faults of the directory and of the file are transient: a Locator
\* query or a read that is attempted again and again succeeds again and again
\* (strong fairness on Locate and Check).
Fairness ==
  \A c \in Single :
    /\ WF_vars(Line(c) \/ Mem(c) \/ Snap(c) \/ Heartbeat(c) \/ Wake(c))
    /\ SF_vars(Locate(c))
    /\ SF_vars(Check(c))

\* The liveness specification leaves the wall clock alone: no claim about
\* progress reads it.
EnvLive ==
  \/ \E p \in Paths : CreateFile(p)
  \/ \E p \in Paths, l \in FewLines : AppendLine(p, l)
  \/ \E p \in Paths : DeleteFile(p)

NextLive == EnvLive \/ \E c \in Single : Stream(c)

LiveSpec == Init /\ [][NextLive]_vars /\ Fairness

(* ------------------------------ properties ----------------------------- *)
Last(s) == s[Len(s)]

\* generator c finishes the loop body for the line at the head of new_lines[c]
Consumes(c) ==
  /\ new_lines[c] # <<>>
  /\ pc'[c] = "lines"
  /\ new_lines'[c] = Tail(new_lines[c])

\* generator c runs the command test of lines 139-152 on an allow-listed line
TestsCommand(c) ==
  /\ pc[c] = "lines" /\ running = c /\ new_lines[c] # <<>>
  /\ Head(new_lines[c]).cmd = "important"
  /\ pc'[c] # pc[c] \/ new_lines'[c] # new_lines[c]

\* C1: on one stream any two command_events are at least ALERT_COOLDOWN seconds
\* apart, and every allow-listed command line processed is covered by a
\* command_event of the last ALERT_COOLDOWN seconds (the one it fires, or an
\* earlier one that suppresses it): a burst within the window yields exactly one.
C1_CommandCooldown ==
  /\ [](\A c \in Conns : \A i, j \in 1..Len(alerts[c]) :
          i < j => alerts[c][j] - alerts[c][i] >= ALERT_COOLDOWN)
  /\ [][\A c \in Conns : TestsCommand(c) =>
          /\ alerts'[c] # <<>>
          /\ clock - Last(alerts'[c]) < ALERT_COOLDOWN]_vars

\* two command_events on the stream, one per allow-listed line written
C1_Witness ==
  /\ Len(alerts[1]) = 2
  /\ written = MaxAppends

\* C2: a tick whose Locator returns a path other than the tracked one tracks
\* that path, resets the offset to 0 and the snapshot to absent and emits one
\* file_change, which is the first event of the tick.
C2_FileSwitch ==
  /\ [][\A c \in Conns :
          (pc[c] = "locate" /\ pc'[c] = "check"
             /\ find_latest_trail_file \notin {None, MONITORED_FILE})
          => /\ MONITORED_FILE' = find_latest_trail_file
             /\ LAST_POSITION' = 0
             /\ LAST_MEMORY_DATA' = NoMem
             /\ tick'[c].ev = <<"file_change">>]_vars
  /\ [](\A c \in Conns :
          /\ \A i \in 1..Len(tick[c].ev) : tick[c].ev[i] = "file_change" => i = 1
          /\ (tick[c].switched /\ tick[c].located # None)
               => (tick[c].ev # <<>> /\ tick[c].ev[1] = "file_change"))

\* a switch from the first trail file to the second, with content events after
\* the file_change
C2_Witness ==
  /\ tick[1].switched
  /\ tick[1].located = Names[2]
  /\ "file_change" \in {got[1][i].ev : i \in 1..Len(got[1])}
  /\ Len(tick[1].ev) >= 2
  /\ tick[1].ev[2] # "heartbeat"

\* C3: for every line that matches the memory-report grammar, a memory_event
\* is emitted iff the delta against the held snapshot exceeds 10 MB.
C3_MemoryAlertIff ==
  [][\A c \in Conns :
       (Consumes(c) /\ parse_memory_line(Head(new_lines[c])) # NoMem)
       => (pc[c] = "snap" <=>
             IsSpike(calculate_memory_diff(parse_memory_line(Head(new_lines[c])),
                                           LAST_MEMORY_DATA)))]_vars

\* C4: after the loop has processed a line that matches the memory-report
\* grammar, the held snapshot is that line's record.
C4_SnapshotFollowsLine ==
  [][\A c \in Conns :
       (Consumes(c) /\ parse_memory_line(Head(new_lines[c])) # NoMem)
       => LAST_MEMORY_DATA' = parse_memory_line(Head(new_lines[c]))]_vars

\* C5: no memory_event is emitted for the first memory-report line processed
\* after the loop starts tracking a file.
C5_FirstObservationSilent ==
  [][\A c \in Conns :
       tick'[c].ev = Append(tick[c].ev, "memory_event") => ~fresh[c]]_vars

\* the first memory-report line of a tracked file carried the largest AppSize
\* and the tick ended with the heartbeat alone
C5_Witness ==
  /\ ~fresh[1]
  /\ LAST_MEMORY_DATA = 10491003
  /\ LAST_POSITION = 1
  /\ tick[1].ev = <<"file_change", "heartbeat">>

\* C6: a tick that reaches the read of new lines ends with exactly one
\* heartbeat, emitted after every other event of the tick.
C6_OneHeartbeatLast ==
  \A c \in Conns :
    /\ \A i \in 1..Len(tick[c].ev) : tick[c].ev[i] = "heartbeat" => i = Len(tick[c].ev)
    /\ (pc[c] = "sleep" /\ tick[c].read)
         => (tick[c].ev # <<>> /\ Last(tick[c].ev) = "heartbeat")
    /\ (tick[c].ev # <<>> /\ Last(tick[c].ev) = "heartbeat")
         => (tick[c].read /\ ~tick[c].fault /\ pc[c] = "sleep")

\* a tick that read lines, none of which qualified, and one that read nothing
C6_Witness ==
  /\ pc[1] = "sleep"
  /\ tick[1].read
  /\ tick[1].ev = <<"heartbeat">>
  /\ LAST_POSITION = MaxAppends

\* generator c is open: created and not closed
IsOpen(c) == pc[c] \notin {"init", "closed"}
InTick(c) == pc[c] \in {"locate", "check", "lines", "mem", "snap"}

\* C7: a fault inside a tick ends the tick in the except branch: no event is
\* emitted for it and the loop sleeps twice the poll interval (a tick without
\* fault sleeps once the interval); every tick of an open stream reaches its
\* sleep and every sleep is followed by the start of another tick.
C7_FaultBacksOffAndContinues ==
  /\ [][\A c \in Conns : (tick'[c].fault /\ ~tick[c].fault)
          => /\ pc'[c] = "sleep"
             /\ sleepDur'[c] = 2 * POLL_INTERVAL
             /\ Len(tick'[c].ev) <= Len(tick[c].ev)
             /\ got' = got]_vars
  /\ [](\A c \in Conns : pc[c] = "sleep"
          => sleepDur[c] = IF tick[c].fault THEN 2 * POLL_INTERVAL ELSE POLL_INTERVAL)
  /\ \A c \in Single :
       /\ InTick(c) ~> (pc[c] \in {"sleep", "closed"})
       /\ (pc[c] = "sleep") ~> (pc[c] \in {"locate", "closed"})

\* the read of a newly tracked file failed after its file_change was emitted
C7_Witness ==
  /\ pc[1] = "sleep"
  /\ tick[1].fault
  /\ tick[1].ev = <<"file_change">>
  /\ sleepDur[1] = 2 * POLL_INTERVAL

\* C8: a tick whose Locator finds no trail file emits nothing; once a file is
\* there and stays, the stream gets its file_change and then a heartbeat.
C8_NoFileNoEvent ==
  /\ [](\A c \in Conns : tick[c].located = None => tick[c].ev = <<>>)
  /\ \A c \in Single :
       (IsOpen(c) /\ recency # <<>> /\ MONITORED_FILE = None)
         ~> \/ /\ MONITORED_FILE # None
               /\ got[c] # <<>> /\ got[c][1].ev = "file_change"
               /\ tick[c].ev # <<>> /\ Last(tick[c].ev) = "heartbeat"
            \/ recency = <<>>
            \/ pc[c] = "closed"

\* a tick found the directory empty and went to sleep without an event
C8_Witness ==
  /\ pc[1] = "sleep"
  /\ recency = <<>>
  /\ tick[1].located = None
  /\ ~tick[1].fault
  /\ tick[1].switched
  /\ got[1] # <<>>

\* the lines generator c has read and not yet entered the loop body for
Waiting(c) ==
  IF pc[c] \in {"mem", "snap"} THEN Len(new_lines[c]) - 1 ELSE Len(new_lines[c])

RECURSIVE WaitingIn(_)
WaitingIn(S) ==
  IF S = {} THEN 0
  ELSE LET c == CHOOSE x \in S : TRUE IN Waiting(c) + WaitingIn(S \ {c})

\* every line of the tracked file below the shared offset was taken up by the
\* loop body or waits in a generator
NoLineStranded == LAST_POSITION = handled + WaitingIn(Conns)

IsPrefix(s, t) == Len(s) <= Len(t) /\ SubSeq(t, 1, Len(s)) = s

\* C9: streams that are open since before the first trail file existed get the
\* same sequence of file_change, memory_event and command_event records: at
\* any moment the events one of them has got are a prefix of the other's.
C9_Broadcast ==
  \A c, d \in Conns :
    (early[c] /\ early[d]) => (IsPrefix(got[c], got[d]) \/ IsPrefix(got[d], got[c]))

\* C10: closing one stream while another is open leaves the monitoring state
\* consistent: no line below the shared offset is stranded, whatever the point
\* at which the closed generator was suspended.
C10_CloseStrandsNoLine ==
  [][(\E c, d \in Conns : c # d /\ IsOpen(c) /\ IsOpen(d) /\ pc'[c] = "closed")
       => NoLineStranded']_vars

\* the distance in seconds between two instants
Gap(a, b) == IF a >= b THEN a - b ELSE b - a

\* C11: across all stream connections of the process no two command_events
\* are emitted less than ALERT_COOLDOWN seconds apart.
C11_ProcessWideCooldown ==
  \A c, d \in Conns : \A i \in 1..Len(alerts[c]), j \in 1..Len(alerts[d]) :
    (c # d \/ i # j) => Gap(alerts[c][i], alerts[d][j]) >= ALERT_COOLDOWN

\* generator c is inside a tick, past its Locator query and before its sleep
MidTick(c) == pc[c] \in {"check", "lines", "mem", "snap"}

\* generator d runs a stretch of its tick that reads or writes MONITORED_FILE,
\* LAST_POSITION or LAST_MEMORY_DATA (the Locator query itself failing reads none)
UsesShared(d) ==
  /\ InTick(d)
  /\ pc'[d] # "closed"
  /\ pc'[d] # pc[d] \/ new_lines'[d] # new_lines[d]
  /\ ~(pc[d] = "locate" /\ tick'[d].fault)

\* C12: while a tick of one generator is between its Locator query and its
\* sleep, no other generator's tick reads or writes the tracked file identity,
\* the offset or the snapshot.
C12_TickAtomic ==
  [][\A c, d \in Conns : (c # d /\ MidTick(c)) => ~UsesShared(d)]_vars

\* the lines generator c holds and has not entered the loop body for
Unprocessed(c) ==
  IF pc[c] \in {"mem", "snap"} THEN Tail(new_lines[c]) ELSE new_lines[c]

\* C13: on one stream, while the tracked file stays the same and is only
\* appended to, the lines the loop body has not yet taken up are exactly the
\* lines of the file between the number already taken up and the stored offset,
\* in file order (so every line is taken up once, in order); each read takes the
\* lines from the stored offset to the end of the file and leaves the offset at
\* the end of the file; the offset never decreases.
C13_EachLineOnceInOrder ==
  /\ [](\A c \in Single :
          (IsOpen(c) /\ MONITORED_FILE # None /\ exists(MONITORED_FILE))
          => /\ LAST_POSITION <= Len(content[MONITORED_FILE])
             /\ handled <= LAST_POSITION
             /\ Unprocessed(c) = SubSeq(content[MONITORED_FILE], handled + 1, LAST_POSITION))
  /\ [][\A c \in Single :
          (pc[c] = "check" /\ pc'[c] = "lines")
          => /\ new_lines'[c] = SubSeq(content[MONITORED_FILE], LAST_POSITION + 1,
                                       Len(content[MONITORED_FILE]))
             /\ LAST_POSITION' = Len(content[MONITORED_FILE])]_vars
  /\ [][MONITORED_FILE' = MONITORED_FILE => LAST_POSITION' >= LAST_POSITION]_vars

\* a line was read and taken up in an earlier tick; the next read starts at
\* offset 1 with one more line appended since
C13_Witness ==
  /\ pc[1] = "check"
  /\ LAST_POSITION = 1
  /\ handled = 1
  /\ MONITORED_FILE # None
  /\ Len(content[MONITORED_FILE]) = 2

\* generator c emits a command_event in this step
EmitsCommand(c) == tick'[c].ev = Append(tick[c].ev, "command_event")

\* C14: the last-alert time of an open stream changes only in a step that
\* emits a command_event, which sets it to the time of the emission (suppressed
\* lines and lines without an allow-listed name leave it alone); an allow-listed
\* line processed with no earlier command_event on the stream, or
\* ALERT_COOLDOWN seconds or more after the last one, emits a command_event.
C14_AlertTimeFrame ==
  [][\A c \in Single :
       /\ (last_alert_time'[c] # last_alert_time[c] /\ pc'[c] # "closed") => EmitsCommand(c)
       /\ EmitsCommand(c) => (last_alert_time'[c] = clock /\ Last(alerts'[c]) = clock)
       /\ (TestsCommand(c)
             /\ (alerts[c] = <<>> \/ clock - Last(alerts[c]) >= ALERT_COOLDOWN))
          => EmitsCommand(c)]_vars

\* two allow-listed lines processed in one tick ALERT_COOLDOWN seconds after
\* an earlier command_event: the first fired, the second was suppressed and
\* left the last-alert time at the time of the first
C14_Witness ==
  /\ pc[1] = "sleep"
  /\ alerts[1] = <<StartTime, StartTime + ALERT_COOLDOWN>>
  /\ last_alert_time[1] = StartTime + ALERT_COOLDOWN
  /\ MONITORED_FILE # None
  /\ Len(content[MONITORED_FILE]) = 2
  /\ \A i \in 1..2 : content[MONITORED_FILE][i].cmd = "important"
  /\ handled = 2

\* the line generator c is working on carries the markers "!Command" and "ProCmd"
HasCommandMarkers(c) == new_lines[c] # <<>> /\ Head(new_lines[c]).cmd # "none"

\* C15: a line that matches the memory-report grammar and also carries the
\* command markers is treated by the memory part as any memory-report line:
\* when the loop is done with it the snapshot is its record, and a
\* memory_event was emitted for it iff the delta exceeds the threshold,
\* whatever the command part did; the command part leaves the snapshot alone.
C15_MemoryIndependentOfCommand ==
  [][\A c \in Single :
       /\ (HasCommandMarkers(c) /\ Consumes(c)
             /\ parse_memory_line(Head(new_lines[c])) # NoMem)
          => /\ LAST_MEMORY_DATA' = parse_memory_line(Head(new_lines[c]))
             /\ pc[c] = "snap" <=>
                  IsSpike(calculate_memory_diff(parse_memory_line(Head(new_lines[c])),
                                                LAST_MEMORY_DATA))
       /\ EmitsCommand(c) => LAST_MEMORY_DATA' = LAST_MEMORY_DATA]_vars

\* C16: a tracked file identity is never set back to none, and a tick whose
\* Locator returns none while a file is tracked leaves the tracked identity,
\* the offset and the snapshot as they are.
C16_TrackedNeverNone ==
  /\ [][MONITORED_FILE # None => MONITORED_FILE' # None]_vars
  /\ [][\A c \in Single :
          (pc[c] = "locate" /\ pc'[c] = "check" /\ tick'[c].located = None)
          => UNCHANGED globVars]_vars

\* C17: a tick that switches the tracked file leaves the last-alert time of
\* its generator as it was, and an allow-listed line processed less than
\* ALERT_COOLDOWN seconds after the stream's last command_event emits none,
\* whichever file that command_event was about.
C17_SwitchKeepsCooldown ==
  /\ [][\A c \in Single :
          (pc[c] = "locate" /\ pc'[c] = "check" /\ MONITORED_FILE' # MONITORED_FILE)
          => last_alert_time'[c] = last_alert_time[c]]_vars
  /\ [][\A c \in Single :
          (TestsCommand(c) /\ alerts[c] # <<>>
             /\ clock - Last(alerts[c]) < ALERT_COOLDOWN)
          => (~EmitsCommand(c) /\ alerts'[c] = alerts[c])]_vars

\* the stream alerted for the line of the first trail file; the tick that
\* switched to the second file processed its allow-listed line, less than
\* ALERT_COOLDOWN seconds later, without a command_event
C17_Witness ==
  /\ pc[1] = "sleep"
  /\ tick[1].switched
  /\ tick[1].located = Names[2]
  /\ tick[1].ev = <<"file_change", "heartbeat">>
  /\ exists(Names[1])
  /\ content[Names[1]] = <<[cmd |-> "important", mem |-> NoMem]>>
  /\ content[Names[2]] = <<[cmd |-> "important", mem |-> NoMem]>>
  /\ handled = 1
  /\ alerts[1] = <<StartTime>>
  /\ clock = StartTime + ALERT_COOLDOWN - 1

\* C18: every step that changes the tracked file (startup, a switch, a switch
\* back to a file tracked earlier) sets the offset to 0, and the read of the
\* tick that switched takes the whole content of the file, lines processed in
\* an earlier tracking period included.
C18_TrackingStartsAtZero ==
  /\ [][MONITORED_FILE' # MONITORED_FILE => LAST_POSITION' = 0]_vars
  /\ [][\A c \in Single :
          (pc[c] = "check" /\ pc'[c] = "lines" /\ tick[c].switched)
          => new_lines'[c] = content[MONITORED_FILE]]_vars

\* one line was ever written, to the first trail file, and the stream has two
\* command_events: the line fired in two tracking periods of the file
C18_Witness ==
  /\ written = 1
  /\ MONITORED_FILE = Names[1]
  /\ content[Names[1]] = <<[cmd |-> "important", mem |-> NoMem]>>
  /\ alerts[1] = <<StartTime, StartTime + ALERT_COOLDOWN>>
  /\ tick[1].switched

\* C19: with several streams open, a read takes the lines from the shared
\* offset to the end of the file and moves the offset there in the same step,
\* so within one tracking period no line number is returned to two generators
\* and every line below the offset was returned to one of them.
C19_ReadOnceAcrossStreams ==
  /\ [](\A c, d \in Conns : c # d => readBy[c] \cap readBy[d] = {})
  /\ []((UNION {readBy[c] : c \in Conns}) = 1..LAST_POSITION)
  /\ [][\A c \in Conns :
          (pc[c] = "check" /\ pc'[c] = "lines")
          => /\ new_lines'[c] = SubSeq(content[MONITORED_FILE], LAST_POSITION + 1, LAST_POSITION')
             /\ readBy'[c] \ readBy[c] = LAST_POSITION + 1 .. LAST_POSITION'
             /\ LAST_POSITION' = Len(content[MONITORED_FILE])]_vars

\* both streams are open and each has read one of the two lines of the file
C19_Witness ==
  /\ IsOpen(1) /\ IsOpen(2)
  /\ readBy[1] = {1} /\ readBy[2] = {2}
  /\ LAST_POSITION = 2
  /\ created = 2

\* C20: every complete line of the tracked file reaches the loop body as one
\* whole line, also when it was written in two parts with a read in between:
\* whenever the offset stands at the end of a complete line, the lines read
\* and not yet taken up are the file's lines between the number taken up and
\* the offset.
C20_WholeLinesOnly ==
  \A c \in Single :
    (IsOpen(c) /\ MONITORED_FILE # None /\ exists(MONITORED_FILE) /\ ~inLine)
    => /\ handled <= LAST_POSITION
       /\ Unprocessed(c) = SubSeq(content[MONITORED_FILE], handled + 1, LAST_POSITION)

=============================================================================
